---- MODULE Spec2Model ----
(***************************************************************************)
(* Inference service of kcotiru/Thesis (src/inference/app/server.py):      *)
(* module start-up (connection pool, label catalog, load_model) and the    *)
(* /health and /predict handlers with the best-effort store write.         *)
(*                                                                         *)
(* Conventions of the model                                                *)
(*   - a Python object is a record [t, fits, items]; t is its kind         *)
(*     ("dict", "tensor", "none", "zero" = a falsy non-mapping,            *)
(*     "other" = a truthy non-mapping, "unloadable" = a checkpoint file    *)
(*     for which torch.load raises); a dict keeps its items in insertion   *)
(*     order as a sequence of <<key, value>>;                              *)
(*   - a checkpoint key "a.b.c" is the sequence <<"a","b","c">> of its     *)
(*     dot-separated segments, so key.startswith("module.") is             *)
(*     "the first segment is module and another segment follows";          *)
(*   - a probability is an integer number of 1/10000;                      *)
(*   - predict is an `async def`: everything after `await file.read()`     *)
(*     runs on the event loop without yielding, so one request at a time   *)
(*     is between Forward and its response (variable running).             *)
(***************************************************************************)
EXTENDS Integers, Sequences, FiniteSets

\* ---------------------------------------------------------------- bounds
MaxEntries == 2
MaxClasses == 3
MaxReq == 2

\* ------------------------------------------------------ program constants
K == 3
PoolMax == 10
DefaultThreshold == 2500
Unit == 4 * DefaultThreshold

VARIABLES
  startup,          \* position of the module-level code
  db_pool,          \* _db_pool: "None" or "pool"
  used,             \* connections checked out of the pool
  LABELS,           \* the label catalog: class index -> name
  SCORE_THRESHOLD,  \* in 1/10000
  model,            \* the global model
  ld,               \* load_model's locals when it returned or raised
  pc,               \* each request's position in predict
  file,             \* each request's upload
  probs,            \* predict's local probs, until results is built
  results,          \* predict's local results
  conn,             \* _save_predictions_to_db's local conn (FALSE: None)
  calls,            \* per request: getconn / execute / putconn calls made
  table,            \* rows of the predictions table
  response,         \* each request's response: status and error text
  sent,             \* the 200 response body being written to the client
  running,          \* the request the event loop is running (0: none)
  healthy           \* whether a /health request was answered

vars == <<startup, db_pool, used, LABELS, SCORE_THRESHOLD, model, ld, pc, file,
          probs, results, conn, calls, table, response, sent,
          running, healthy>>

Reqs == 1..MaxReq

\* ------------------------------------------------------- Python objects
Obj(t, items) == [t |-> t, fits |-> FALSE, items |-> items]

Tensor(fits) == [t |-> "tensor", fits |-> fits, items |-> <<>>]

PyNone == Obj("none", <<>>)

Dict(items) == Obj("dict", items)

Unloadable == Obj("unloadable", <<>>)

IsDict(v) == v.t = "dict"

Truthy(v) ==
  CASE v.t = "none" -> FALSE
    [] v.t = "zero" -> FALSE
    [] v.t = "dict" -> v.items # <<>>
    [] OTHER -> TRUE

Has(d, k) == \E i \in 1..Len(d.items) : d.items[i][1] = k

Get(d, k) ==
  IF Has(d, k)
  THEN d.items[CHOOSE i \in 1..Len(d.items) : d.items[i][1] = k][2]
  ELSE PyNone

PyOr(a, b) == IF Truthy(a) THEN a ELSE b

DictPut(items, k, v) ==
  IF \E i \in 1..Len(items) : items[i][1] = k
  THEN [i \in 1..Len(items) |-> IF items[i][1] = k THEN <<k, v>> ELSE items[i]]
  ELSE Append(items, <<k, v>>)

\* ------------------------------------------------------- label catalog
\* labels.json's keys: "0".."n-1", or (small catalogs) "1".."n", where class 0
\* has no entry
CatalogKeys == { 0..(n - 1) : n \in 0..MaxClasses } \cup { 1..n : n \in 1..K }

Catalogs == { [i \in S |-> <<"name", i>>] : S \in CatalogKeys }

NumClasses(labels) == Cardinality(DOMAIN labels)

LabelOf(labels, idx) ==
  IF idx \in DOMAIN labels THEN labels[idx] ELSE <<"class", idx>>

Thresholds == {DefaultThreshold, 2 * DefaultThreshold}

\* ---------------------------------------------------------- load_model
WrapperKeys == <<  <<"state_dict">>, <<"model_state">>, <<"model_state_dict">>  >>

ModelKeys == { <<"conv1", "weight">>, <<"fc", "weight">>, <<"fc", "bias">> }

StartsWith(key, seg) == Len(key) >= 2 /\ key[1] = seg

\* a blob that is no dict taken for an empty state_dict
ExtractStateDictLenient(state) ==
  IF IsDict(state) /\ \E i \in 1..Len(WrapperKeys) : Has(state, WrapperKeys[i])
  THEN PyOr(PyOr(Get(state, WrapperKeys[1]), Get(state, WrapperKeys[2])),
            Get(state, WrapperKeys[3]))
  ELSE IF IsDict(state) THEN state ELSE Dict(<<>>)

ExtractStateDict(state) ==
  IF IsDict(state) /\ \E i \in 1..Len(WrapperKeys) : Has(state, WrapperKeys[i])
  THEN PyOr(PyOr(Get(state, WrapperKeys[1]), Get(state, WrapperKeys[2])),
            Get(state, WrapperKeys[3]))
  ELSE IF IsDict(state) THEN state ELSE PyNone

\* `elif` for the second test: one prefix at most
StripOnePrefix(key) ==
  IF StartsWith(key, "module") THEN Tail(key)
  ELSE IF StartsWith(key, "model") THEN Tail(key)
  ELSE key

StripPrefixes(key) ==
  LET k1 == IF StartsWith(key, "module") THEN Tail(key) ELSE key
  IN  IF StartsWith(k1, "model") THEN Tail(k1) ELSE k1

RECURSIVE CleanStateDict(_, _)
CleanStateDict(items, acc) ==
  IF items = <<>> THEN acc
  ELSE CleanStateDict(Tail(items),
                      DictPut(acc, StripPrefixes(Head(items)[1]), Head(items)[2]))

InModelKeys(e) == e[1] \in ModelKeys

FilterStateDict(cleaned) == SelectSeq(cleaned, InModelKeys)

LoadStateDictRaises(filtered) ==
  \E i \in 1..Len(filtered) : ~(filtered[i][2].t = "tensor" /\ filtered[i][2].fits)

NoModel == [classes |-> 0, weights |-> "none", loaded |-> <<>>, eval |-> FALSE]

FallbackModel(n) ==
  [classes |-> n, weights |-> "imagenet", loaded |-> <<>>, eval |-> TRUE]

CheckpointModel(n, filtered) ==
  [classes |-> n, weights |-> "default", loaded |-> filtered, eval |-> TRUE]

NoLoad ==
  [state |-> PyNone, state_dict |-> PyNone, cleaned |-> <<>>, filtered |-> <<>>,
   outcome |-> "none"]

\* torch.load raised and nothing catches it
OnLoadFailureRaises(state, n) ==
  [ld |-> [NoLoad EXCEPT !.state = state, !.outcome = "Exception"], model |-> NoModel]

\* `except Exception` around torch.load: the ImageNet fallback, returned early
OnLoadFailure(state, n) ==
  [ld |-> [NoLoad EXCEPT !.state = state, !.outcome = "fallback"],
   model |-> FallbackModel(n)]

\* What load_model does with the object torch.load yields (or its raising).
LoadResult(state, n) ==
  IF state.t = "unloadable"
  THEN OnLoadFailure(state, n)
  ELSE
    LET sd == ExtractStateDict(state) IN
    IF sd = PyNone
    THEN [ld |-> [NoLoad EXCEPT !.state = state, !.outcome = "RuntimeError"],
          model |-> NoModel]
    ELSE IF ~IsDict(sd)
    THEN [ld |-> [NoLoad EXCEPT !.state = state, !.state_dict = sd,
                                !.outcome = "AttributeError"],
          model |-> NoModel]
    ELSE
      LET cleaned == CleanStateDict(sd.items, <<>>)
          filtered == FilterStateDict(cleaned)
          locals == [state |-> state, state_dict |-> sd, cleaned |-> cleaned,
                     filtered |-> filtered, outcome |-> "loaded"]
      IN  IF LoadStateDictRaises(filtered)
          THEN [ld |-> [locals EXCEPT !.outcome = "LoadError"], model |-> NoModel]
          ELSE [ld |-> locals, model |-> CheckpointModel(n, filtered)]

\* ------------------------------------------------- checkpoints (inputs)
Prefixes ==
  { <<>>, <<"module">>, <<"model">>, <<"module", "model">>, <<"model", "module">>,
    <<"model", "model">> }

BaseKeys == { <<"fc", "weight">>, <<"head", "weight">> }

KeyPool == { p \o b : p \in Prefixes, b \in BaseKeys }

TensorVals == { Tensor(TRUE), Tensor(FALSE) }

DistinctKeys(items) ==
  \A i, j \in 1..Len(items) : i # j => items[i][1] # items[j][1]

MappingsOver(keys, n) ==
  { s \in UNION { [1..m -> keys \X TensorVals] : m \in 0..n } : DistinctKeys(s) }

NonMappings == { PyNone, Obj("zero", <<>>), Obj("other", <<>>) }

Wrapped(i, v) == Dict(<< <<WrapperKeys[i], v>> >>)

SmallVals ==
  NonMappings \cup { Dict(m) : m \in MappingsOver({<<"fc", "weight">>}, 1) }

TwoWrapped ==
  { Dict(<< <<WrapperKeys[i], v>>, <<WrapperKeys[j], w>> >>) :
      i \in 1..3, j \in 1..3, v \in SmallVals, w \in SmallVals } \
  { Dict(<< <<WrapperKeys[i], v>>, <<WrapperKeys[i], w>> >>) :
      i \in 1..3, v \in SmallVals, w \in SmallVals }

CheckpointsOver(keys, n) ==
  { Unloadable, Obj("other", <<>>), Obj("zero", <<>>) }
    \cup { Dict(m) : m \in MappingsOver(keys, n) }
    \cup { Wrapped(i, Dict(m)) : i \in 1..3, m \in MappingsOver(keys, n) }
    \cup { Wrapped(i, v) : i \in 1..3, v \in NonMappings }
    \cup { Dict(<< <<WrapperKeys[i], Dict(m)>>, << <<"epoch">>, Obj("other", <<>>)>> >>) :
             i \in 1..3, m \in MappingsOver(keys, 1) }

Checkpoints == CheckpointsOver(KeyPool, MaxEntries) \cup TwoWrapped

\* The checkpoints of the serving specification: every shape that is no weights
\* mapping, and a few that are.
ServeCheckpoints ==
  { Unloadable, Obj("other", <<>>), Obj("zero", <<>>),
    Dict(<< << <<"fc", "weight">>, Tensor(TRUE) >> >>),
    Dict(<< << <<"fc", "weight">>, Tensor(FALSE) >> >>),
    Wrapped(1, Dict(<<>>)) }
    \cup { Wrapped(i, v) : i \in 1..3, v \in NonMappings }
    \cup { Dict(<< <<WrapperKeys[i], v>>, <<WrapperKeys[j], w>> >>) :
             i \in 1..2, j \in 2..3, v \in NonMappings, w \in NonMappings }

\* ------------------------------------------------------------- predict
Images == { [decodes |-> FALSE, w |-> 0, h |-> 0], [decodes |-> TRUE, w |-> 4, h |-> 3] }

NoImage == [decodes |-> FALSE, w |-> 0, h |-> 0]

ProbVals == { 1250, 1875, 2496, 2500, 3125, 3750, 5000, 5008, Unit }

RECURSIVE SumTo(_, _)
SumTo(p, n) == IF n = 0 THEN 0 ELSE p[n - 1] + SumTo(p, n - 1)

Monotone(p, n) ==
  \/ \A i \in 0..(n - 2) : p[i] >= p[i + 1]
  \/ \A i \in 0..(n - 2) : p[i] <= p[i + 1]

\* softmax outputs of a model with n classes
ProbVectors ==
  [n \in 0..MaxClasses |->
     { p \in [0..(n - 1) -> ProbVals] : (n = 0 \/ SumTo(p, n) = Unit) /\ Monotone(p, n) }]

\* torch.topk(probs, k): k distinct by descending value; the order of
\* equal values is the library's choice
TopK(p, k) ==
  { s \in [1..k -> DOMAIN p] :
      /\ \A i, j \in 1..k : i < j => (s[i] # s[j] /\ p[s[i]] >= p[s[j]])
      /\ \A c \in DOMAIN p : (\A i \in 1..k : s[i] # c) => p[c] <= p[s[k]] }

\* k = min(3, number of classes)
TopKSizeClamped(n) == IF n < K THEN n ELSE K

\* the k of torch.topk(probs, k=3); topk raises when probs has fewer entries
TopKSize(n) == K

\* round(conf, 3): to a multiple of 10/10000, halves to the even neighbour
Round3(x) ==
  LET q == x \div 10
      m == x % 10
  IN  IF m < 5 THEN 10 * q
      ELSE IF m > 5 THEN 10 * (q + 1)
      ELSE IF q % 2 = 0 THEN 10 * q ELSE 10 * (q + 1)

MeetsThreshold(conf, threshold) == conf >= threshold

RECURSIVE BuildResults(_, _, _, _, _)
BuildResults(p, idx, i, labels, threshold) ==
  IF i > Len(idx) THEN <<>>
  ELSE LET conf == p[idx[i]]
           rest == BuildResults(p, idx, i + 1, labels, threshold)
       IN  IF MeetsThreshold(conf, threshold)
           THEN << [label |-> LabelOf(labels, idx[i]), confidence |-> Round3(conf)] >> \o rest
           ELSE rest

NoCalls == [getconn |-> 0, execute |-> 0, putconn |-> 0]

NoResponse == [status |-> 0, error |-> ""]

NothingSent == [req |-> 0, width |-> 0, height |-> 0, predictions |-> <<>>]

OkResponse == [status |-> 200, error |-> ""]

\* JSONResponse without status_code: the default, 200
ErrorResponseDefaultStatus(e) == [status |-> 200, error |-> e]

\* JSONResponse(status_code=500, content={"error": str(e)})
ErrorResponse(e) == [status |-> 500, error |-> e]

\* the write without its None check
PoolCheckMissing(pool) == FALSE

\* _save_predictions_to_db: `if _db_pool is None: return`
PoolUnavailable(pool) == pool = "None"

\* a finally clause that puts nothing back
ReleaseSkipped(c) == FALSE

\* _save_predictions_to_db: the finally clause's `if conn:`
NeedsRelease(c) == c

\* ------------------------------------------------------------- start-up
Init ==
  /\ startup = "init_db_pool"
  /\ db_pool = "None"
  /\ used = 0
  /\ LABELS \in Catalogs
  /\ SCORE_THRESHOLD \in Thresholds
  /\ model = NoModel
  /\ ld = NoLoad
  /\ pc = [r \in Reqs |-> "idle"]
  /\ file = [r \in Reqs |-> NoImage]
  /\ probs = [r \in Reqs |-> <<>>]
  /\ results = [r \in Reqs |-> <<>>]
  /\ conn = [r \in Reqs |-> FALSE]
  /\ calls = [r \in Reqs |-> NoCalls]
  /\ table = {}
  /\ response = [r \in Reqs |-> NoResponse]
  /\ sent = NothingSent
  /\ running = 0
  /\ healthy = FALSE

requestVars == <<pc, file, probs, results, conn, calls, table, response,
                 sent, running, healthy>>

\* init_db_pool(): SimpleConnectionPool(1, 10, dsn) connects, or raises and
\* leaves _db_pool None
init_db_pool ==
  /\ startup = "init_db_pool"
  /\ \E ok \in BOOLEAN : db_pool' = IF ok THEN "pool" ELSE "None"
  /\ startup' = "load_model"
  /\ UNCHANGED <<used, LABELS, SCORE_THRESHOLD, model, ld, requestVars>>

\* model = load_model(): a raise aborts the import, the app is never created
load_model(checkpoints) ==
  /\ startup = "load_model"
  /\ \E state \in checkpoints :
       LET res == LoadResult(state, NumClasses(LABELS))
       IN  /\ ld' = res.ld
           /\ model' = res.model
           /\ startup' = IF res.ld.outcome \in {"fallback", "loaded"}
                         THEN "serving" ELSE "aborted"
  /\ UNCHANGED <<db_pool, used, LABELS, SCORE_THRESHOLD, requestVars>>

\* ------------------------------------------------------------ handlers
health_check ==
  /\ startup = "serving"
  /\ healthy' = TRUE
  /\ UNCHANGED <<startup, db_pool, used, LABELS, SCORE_THRESHOLD, model, ld, pc,
                 file, probs, results, conn, calls, table, response, sent,
                 running>>

globals == <<startup, db_pool, LABELS, SCORE_THRESHOLD, model, ld, healthy>>

\* The handler's return or its `except Exception`: the response is sent, the
\* locals and the upload are gone, the event loop is free.
Finish(r, resp) ==
  /\ pc' = [pc EXCEPT ![r] = "done"]
  /\ response' = [response EXCEPT ![r] = resp]
  /\ sent' = IF resp.status = 200
             THEN [req |-> r, width |-> file[r].w, height |-> file[r].h,
                   predictions |-> results[r]]
             ELSE sent
  /\ probs' = [probs EXCEPT ![r] = <<>>]
  /\ results' = [results EXCEPT ![r] = <<>>]
  /\ file' = [file EXCEPT ![r] = NoImage]
  /\ running' = 0

\* A client posts an upload; the handler waits in `await file.read()`.
\* Requests are numbered in their order of arrival.
Receive(r, img) ==
  /\ startup = "serving"
  /\ pc[r] = "idle"
  /\ \A q \in Reqs : q < r => pc[q] # "idle"
  /\ pc' = [pc EXCEPT ![r] = "read"]
  /\ file' = [file EXCEPT ![r] = img]
  /\ UNCHANGED <<globals, used, probs, results, conn, calls, table,
                 response, sent, running>>

\* The server has written the response body out.
Deliver ==
  /\ sent # NothingSent
  /\ sent' = NothingSent
  /\ UNCHANGED <<globals, used, pc, file, probs, results, conn, calls,
                 table, response, running>>

\* The event loop takes up a handler when it runs no other and the last
\* response is written.
LoopFree == running = 0 /\ sent = NothingSent

\* Image.open fails: the handler's except answers 500
DecodeFails(r) ==
  /\ pc[r] = "read"
  /\ LoopFree
  /\ ~file[r].decodes
  /\ Finish(r, ErrorResponse("cannot identify image file"))
  /\ UNCHANGED <<globals, used, conn, calls, table>>

\* Image.open, preprocess_image, model(tensor), softmax; any of them may raise
Forward(r) ==
  /\ pc[r] = "read"
  /\ LoopFree
  /\ file[r].decodes
  /\ \/ /\ Finish(r, ErrorResponse("inference failed"))
        /\ UNCHANGED <<globals, used, conn, calls, table>>
     \/ /\ \E p \in ProbVectors[model.classes] : probs' = [probs EXCEPT ![r] = p]
        /\ pc' = [pc EXCEPT ![r] = "topk"]
        /\ running' = r
        /\ UNCHANGED <<globals, used, file, results, conn, calls, table,
                       response, sent>>

\* torch.topk(probs, k=3) and the loop that builds results
Select(r) ==
  /\ pc[r] = "topk"
  /\ IF model.classes < TopKSize(model.classes)
     THEN /\ Finish(r, ErrorResponse("selected index k out of range"))
          /\ UNCHANGED <<globals, used, conn, calls, table>>
     ELSE /\ \E idx \in TopK(probs[r], TopKSize(model.classes)) :
               results' = [results EXCEPT ![r] =
                             BuildResults(probs[r], idx, 1, LABELS, SCORE_THRESHOLD)]
          /\ probs' = [probs EXCEPT ![r] = <<>>]
          /\ pc' = [pc EXCEPT ![r] = "save"]
          /\ UNCHANGED <<globals, used, file, conn, calls, table, response, sent,
                         running>>

\* _save_predictions_to_db with no pool: returns at once; predict answers 200
SaveSkipped(r) ==
  /\ pc[r] = "save"
  /\ PoolUnavailable(db_pool)
  /\ Finish(r, OkResponse)
  /\ UNCHANGED <<globals, used, conn, calls, table>>

\* conn = _db_pool.getconn(): a connection, or a raise that the except clause
\* swallows (conn stays None) before the finally clause runs
GetConn(r) ==
  /\ pc[r] = "save"
  /\ ~PoolUnavailable(db_pool)
  /\ calls' = [calls EXCEPT ![r].getconn = @ + 1]
  /\ \/ /\ db_pool = "pool"
        /\ used < PoolMax
        /\ used' = used + 1
        /\ conn' = [conn EXCEPT ![r] = TRUE]
        /\ pc' = [pc EXCEPT ![r] = "insert"]
     \/ /\ pc' = [pc EXCEPT ![r] = "release"]
        /\ UNCHANGED <<used, conn>>
  /\ UNCHANGED <<globals, file, probs, results, table, response, sent, running>>

\* The row of the INSERT, by its source and size columns (the predictions
\* column, json.dumps(results), is the list the response carries).
Row(r) == [source |-> r, image_width |-> file[r].w, image_height |-> file[r].h]

\* cursor, execute, commit, close: all succeed, or one raises before the row
\* is committed, or cur.close() raises after the commit; the except clause
\* swallows the exception and the finally clause runs
Insert(r) ==
  /\ pc[r] = "insert"
  /\ calls' = [calls EXCEPT ![r].execute = @ + 1]
  /\ \E outcome \in {"ok", "raise_before_commit", "raise_after_commit"} :
       table' = IF outcome = "raise_before_commit" THEN table ELSE table \cup {Row(r)}
  /\ pc' = [pc EXCEPT ![r] = "release"]
  /\ UNCHANGED <<globals, used, file, probs, results, conn, response, sent,
                 running>>

\* finally: `if conn: _db_pool.putconn(conn)`; putconn returns, or raises, and
\* no handler of the write catches that: predict's except answers 500. The
\* connection counts as handed back once putconn is called with it.
Release(r) ==
  /\ pc[r] = "release"
  /\ IF NeedsRelease(conn[r])
     THEN /\ calls' = [calls EXCEPT ![r].putconn = @ + 1]
          /\ used' = used - 1
          /\ conn' = [conn EXCEPT ![r] = FALSE]
          /\ \E ok \in BOOLEAN :
               Finish(r, IF ok THEN OkResponse ELSE ErrorResponse("putconn failed"))
     ELSE /\ Finish(r, OkResponse)
          /\ UNCHANGED <<used, conn, calls>>
  /\ UNCHANGED <<globals, table>>

Next ==
  \/ init_db_pool
  \/ load_model(ServeCheckpoints)
  \/ health_check
  \/ \E r \in Reqs, img \in Images : Receive(r, img)
  \/ Deliver
  \/ \E r \in Reqs : DecodeFails(r)
  \/ \E r \in Reqs : Forward(r)
  \/ \E r \in Reqs : Select(r)
  \/ \E r \in Reqs : SaveSkipped(r)
  \/ \E r \in Reqs : GetConn(r)
  \/ \E r \in Reqs : Insert(r)
  \/ \E r \in Reqs : Release(r)

Spec == Init /\ [][Next]_vars

\* The loader alone, over the large family of checkpoints.
NextLoad ==
  \/ init_db_pool
  \/ load_model(Checkpoints)

InitLoad ==
  /\ Init
  /\ SCORE_THRESHOLD = DefaultThreshold
  /\ DOMAIN LABELS = 0..(NumClasses(LABELS) - 1)

SpecLoad == InitLoad /\ [][NextLoad]_vars

\* ======================================================================
\* Claims
\* ======================================================================

Writing(r) == pc[r] \in {"insert", "release"}

Built(r) == pc[r] \in {"save", "insert", "release"}

Min(a, b) == IF a < b THEN a ELSE b

Meeting(p) == { c \in DOMAIN p : p[c] >= SCORE_THRESHOLD }

\* res is the thresholded top-K list of the probability vector p
PredictionsListOk(res, p) ==
  /\ Len(res) <= K
  /\ \A i, j \in 1..Len(res) : i < j => res[i].confidence >= res[j].confidence
  /\ Len(res) = Min(K, Cardinality(Meeting(p)))
  /\ \E cls \in [1..Len(res) -> DOMAIN p] :
       /\ \A i, j \in 1..Len(res) : i # j => cls[i] # cls[j]
       /\ \A i \in 1..Len(res) :
            /\ p[cls[i]] >= SCORE_THRESHOLD
            /\ res[i].label = LabelOf(LABELS, cls[i])
            /\ res[i].confidence = Round3(p[cls[i]])
            /\ \A c \in DOMAIN p :
                 (\A j \in 1..Len(res) : cls[j] # c) => p[c] <= p[cls[i]]

\* C1: the list predict builds from a probability vector is sorted by
\* descending confidence, has at most K entries and holds exactly the top-K
\* classes at or above SCORE_THRESHOLD (the boundary included); and a request
\* whose list is empty is still answered 200 with that empty list.
C1_ListAndEmptyIs200 ==
  [][\A r \in Reqs :
       /\ (pc[r] = "topk" /\ pc'[r] = "save") => PredictionsListOk(results'[r], probs[r])
       /\ (Built(r) /\ results[r] = <<>> /\ pc'[r] = "done")
             => (response'[r].status = 200 /\ sent'.req = r /\ sent'.predictions = <<>>)
    ]_vars

\* The list properties of C1 alone (they hold; the 200 of C1 is what fails).
ListIsThresholdedTopK ==
  [][\A r \in Reqs :
       (pc[r] = "topk" /\ pc'[r] = "save") => PredictionsListOk(results'[r], probs[r])]_vars

\* C2: when torch.load raises, load_model does not raise: it returns an
\* evaluation-mode model on the pretrained backbone whose output layer has
\* one class per label, and the service reaches the serving state.
C2_FallbackServes ==
  ld.state.t = "unloadable"
    => /\ ld.outcome = "fallback"
       /\ startup = "serving"
       /\ model.eval
       /\ model.weights = "imagenet"
       /\ model.classes = Cardinality(DOMAIN LABELS)

C2_Witness ==
  /\ ld.state.t = "unloadable"
  /\ startup = "serving"
  /\ \E r \in Reqs : response[r].status = 200

\* The deserialized blob is no weights mapping: it is no mapping, or it has
\* wrapper keys and none of them holds a mapping.
Unrecognized(state) ==
  /\ state.t \notin {"unloadable", "none"}
  /\ \/ ~IsDict(state)
     \/ /\ \E i \in 1..3 : Has(state, WrapperKeys[i])
        /\ \A i \in 1..3 : ~IsDict(Get(state, WrapperKeys[i]))

Loaded == ld.outcome # "none"

NothingAnswered ==
  /\ ~healthy
  /\ \A r \in Reqs : pc[r] = "idle" /\ response[r] = NoResponse
  /\ sent = NothingSent

\* C3: when the deserialized blob is not recognizable as a weights mapping,
\* load_model raises, start-up is aborted, and no health or predict request
\* is ever answered.
C3_UnrecognizedAborts ==
  (Loaded /\ Unrecognized(ld.state))
    => /\ ld.outcome \in {"RuntimeError", "AttributeError"}
       /\ startup = "aborted"
       /\ model = NoModel
       /\ NothingAnswered

C3_Witness ==
  /\ Loaded
  /\ Unrecognized(ld.state)
  /\ IsDict(ld.state)
  /\ startup = "aborted"

Keys(items) == { items[i][1] : i \in 1..Len(items) }

Processed == ld.outcome \in {"loaded", "LoadError"}

\* key = prefix.rest, where the prefix is what the normalizer removes
StripsTo(key, rest) ==
  \/ /\ rest = key
     /\ ~StartsWith(key, "module")
     /\ ~StartsWith(key, "model")
  \/ /\ key = <<"module">> \o rest
     /\ rest # <<>>
     /\ ~StartsWith(rest, "model")
  \/ /\ key = <<"model">> \o rest
     /\ rest # <<>>
  \/ /\ key = <<"module", "model">> \o rest
     /\ rest # <<>>

\* at most one recognized prefix is removed: module. if present, else model.
SingleStrip(key) ==
  IF StartsWith(key, "module") THEN Tail(key)
  ELSE IF StartsWith(key, "model") THEN Tail(key)
  ELSE key

\* C4 as stated: every key loses at most one leading prefix (module. before
\* model., never both), so module.model.<name> becomes model.<name>; the
\* stripped keys are matched against the architecture's parameters.
C4_SingleStripOnly ==
  Processed
    => /\ Keys(ld.cleaned) = { SingleStrip(k) : k \in Keys(ld.state_dict.items) }
       /\ Keys(ld.filtered) = Keys(ld.cleaned) \cap ModelKeys

\* C4 amended: a leading module. is removed if present, then a leading model.
\* if present (each at most once, in that order), so module.model.<name>
\* becomes <name> while model.module.<name> becomes module.<name>; the
\* stripped keys are matched against the architecture's parameters.
C4_ModuleThenModel ==
  Processed
    => /\ \A k \in Keys(ld.state_dict.items) :
            \E rest \in Keys(ld.cleaned) : StripsTo(k, rest)
       /\ \A rest \in Keys(ld.cleaned) :
            \E k \in Keys(ld.state_dict.items) : StripsTo(k, rest)
       /\ Keys(ld.filtered) = Keys(ld.cleaned) \cap ModelKeys
       /\ (ld.outcome = "loaded" => Keys(model.loaded) = Keys(ld.filtered))

C4_Witness ==
  /\ ld.outcome = "loaded"
  /\ <<"module", "model", "fc", "weight">> \in Keys(ld.state_dict.items)
  /\ <<"model", "module", "head", "weight">> \in Keys(ld.state_dict.items)
  /\ Keys(model.loaded) = { <<"fc", "weight">> }
  /\ <<"module", "head", "weight">> \in Keys(ld.cleaned)

\* the checkpoint is {wrapper_key: M} for a mapping M
SingleWrapper(state) ==
  /\ IsDict(state)
  /\ Len(state.items) = 1
  /\ \E i \in 1..3 : state.items[1][1] = WrapperKeys[i]
  /\ IsDict(state.items[1][2])

\* C5: from {wrapper_key: M} the loader extracts M, and the outcome is the
\* same whichever of the three wrapper keys holds M (the empty M included).
C5_WrapperKeysAlike ==
  (Loaded /\ SingleWrapper(ld.state))
    => /\ ld.state_dict = ld.state.items[1][2]
       /\ \A i \in 1..3 :
            LoadResult(Wrapped(i, ld.state.items[1][2]), NumClasses(LABELS)).ld.outcome
              = ld.outcome

PoolFailed == startup # "init_db_pool" /\ db_pool = "None"

\* C6: once the pool failed to initialize, it stays unset, no connection is
\* ever acquired and no insert attempted, and every request that reaches the
\* write (decoding and inference succeeded) is answered 200 with the
\* predictions it computed.
C6_NoPoolStillServes ==
  [][PoolFailed
       => /\ db_pool' = "None"
          /\ used' = 0
          /\ table' = {}
          /\ \A r \in Reqs :
               /\ calls'[r] = NoCalls
               /\ ~conn'[r]
               /\ (pc[r] = "save" /\ pc'[r] # "save")
                    => /\ pc'[r] = "done"
                       /\ response'[r] = OkResponse
                       /\ sent'.req = r
                       /\ sent'.predictions = results[r]
    ]_vars

C6_Witness ==
  /\ PoolFailed
  /\ \E r \in Reqs :
       /\ pc[r] = "done"
       /\ response[r].status = 200
       /\ sent.req = r
       /\ sent.predictions # <<>>

\* C7: a failure of the store write (acquire, insert, commit or release) is
\* never propagated and the write is not retried: a request that reached
\* the write is answered 200 with its predictions after at most one insert.
C7_WriteNeverFailsRequest ==
  [][\A r \in Reqs :
       /\ calls'[r].execute <= 1
       /\ (Built(r) /\ pc'[r] = "done")
            => /\ response'[r].status = 200
               /\ sent'.req = r
               /\ sent'.predictions = results[r]
    ]_vars

\* C8: an upload that does not decode is answered 500 with a non-empty
\* error; no connection is acquired and no row written for it; the model,
\* the catalog and the pool are unchanged and the service stays up.
C8_DecodeFailureIs500 ==
  [][\A r \in Reqs :
       (pc[r] = "read" /\ ~file[r].decodes /\ pc'[r] # "read")
         => /\ pc'[r] = "done"
            /\ response'[r].status = 500
            /\ response'[r].error # ""
            /\ calls'[r] = NoCalls
            /\ UNCHANGED <<conn, used, table, sent, model, LABELS, db_pool, startup>>
            /\ startup = "serving"
            /\ running' = 0
    ]_vars

C8_Witness ==
  \E r, q \in Reqs :
    /\ r < q
    /\ response[r] = ErrorResponse("cannot identify image file")
    /\ response[q].status = 200
    /\ sent.req = q

C10_SmallCatalogAlways500 ==
  /\ startup = "serving" => model.classes = Cardinality(DOMAIN LABELS)
  /\ \A r \in Reqs :
       /\ response[r].status = 200 => Cardinality(DOMAIN LABELS) >= 3
       /\ Cardinality(DOMAIN LABELS) < 3
            => /\ pc[r] = "done" => response[r].status = 500
               /\ ~Built(r)
               /\ calls[r] = NoCalls
               /\ table = {}

C10_Witness ==
  /\ Cardinality(DOMAIN LABELS) < 3
  /\ \E r, q \in Reqs :
       /\ response[r] = ErrorResponse("selected index k out of range")
       /\ response[q] = ErrorResponse("cannot identify image file")
  /\ model.weights = "default"

====
